---- MODULE Spec2Model ----
(***************************************************************************)
(* Model of the weighted-graph package: the adjacency-list container       *)
(* (NewVertex, RemoveVertex, AddEdge, RemoveEdges), the identifier         *)
(* generator, the Path record, the distanceHeap and the Dijkstra engine.   *)
(*                                                                         *)
(* Two revisions of the package are under src/:                            *)
(*   "current": src/unnamed/part_002 (vertex.go and graph.go with Type,    *)
(*              RemoveEdges, dijkstra + handler);                          *)
(*   "legacy":  src/graph.go (no Type, no RemoveEdges, ShortestPaths with  *)
(*              the loop inlined, removeEdge without the index step-back). *)
(* Definitions modelling src/graph.go carry the suffix Legacy.             *)
(*                                                                         *)
(* Go slices are modelled as they are laid out: a Path holds a reference   *)
(* to a backing array and a length; copying a Path copies the reference.   *)
(***************************************************************************)
EXTENDS Integers, Sequences, FiniteSets, TLC

\* ------------------------------------------------------------------ bounds
\* Container specification (Spec)
MaxID == 3             \* NewVertex calls per run (cap on vertexIDLast)
MaxEdges == 3          \* edge records in the whole graph
MaxWeight == 2         \* AddEdge weights are 1..MaxWeight in Spec
NumThreads == 2        \* goroutines calling NewVertex
\* Query specification (SpecQuery)
MaxQueryVertices == 3  \* vertices of a queried graph
MaxQueryEdges == 2     \* AddEdge calls that built a queried graph
MaxQueryWeight == 2    \* weights are -1..MaxQueryWeight in SpecQuery
\* Chain specification (SpecChain)
ChainLen == 3          \* edges of the chain 1 -> 2 -> ... -> ChainLen+1
FanOut == 2            \* leaves hanging off the chain's last vertex
MaxChainWeight == 2    \* fan edge weights are 1..MaxChainWeight

\* ------------------------------------------------------------ Go values
Directional == 0
Bidirectional == 1

NilVertex == 0

\* the zero value of edge: what a freshly allocated array cell holds
zeroEdge == [to |-> NilVertex, weight |-> 0]

mkEdge(to, weight) == [to |-> to, weight |-> weight]

\* Path{}: a nil slice, no backing array
PathZero == [arr |-> 0, len |-> 0]

\* m[k], or the zero value when the key is absent (Go map read)
mapGet(m, k, zero) == IF k \in DOMAIN m THEN m[k] ELSE zero

\* m[k] = v (Go map write)
mapPut(m, k, v) == [x \in DOMAIN m \cup {k} |-> IF x = k THEN v ELSE m[x]]

\* delete(m, k)
mapDelete(m, k) == [x \in DOMAIN m \ {k} |-> m[x]]

\* ------------------------------------------------------- vertex, Graph
\* vertex.addEdge, on the outgoing slice
addEdge(outgoing, to, weight) == Append(outgoing, mkEdge(to, weight))

\* vertex.removeEdge of part_002: a hit moves the last edge into slot i,
\* shortens the slice and steps i back, so slot i is looked at again
RECURSIVE removeEdgeLoop(_, _, _)
removeEdgeLoop(outgoing, dest, i) ==
    IF i >= Len(outgoing) THEN outgoing
    ELSE IF outgoing[i + 1].to = dest
    THEN removeEdgeLoop(
             SubSeq([outgoing EXCEPT ![i + 1] = outgoing[Len(outgoing)]],
                    1, Len(outgoing) - 1),
             dest, i)
    ELSE removeEdgeLoop(outgoing, dest, i + 1)

removeEdgeFirstHitOnly(outgoing, dest) ==
    LET hits == {i \in 1..Len(outgoing) : outgoing[i].to = dest}
    IN  IF hits = {} THEN outgoing
        ELSE LET i == CHOOSE x \in hits : \A y \in hits : x <= y
             IN  SubSeq([outgoing EXCEPT ![i] = outgoing[Len(outgoing)]],
                        1, Len(outgoing) - 1)
removeEdge(outgoing, dest) == removeEdgeLoop(outgoing, dest, 0)

\* vertex.removeEdge of src/graph.go: after a hit i still advances, so the
\* edge moved into slot i is never looked at
RECURSIVE removeEdgeLoopLegacy(_, _, _)
removeEdgeLoopLegacy(outgoing, dest, i) ==
    IF i >= Len(outgoing) THEN outgoing
    ELSE IF outgoing[i + 1].to = dest
    THEN removeEdgeLoopLegacy(
             SubSeq([outgoing EXCEPT ![i + 1] = outgoing[Len(outgoing)]],
                    1, Len(outgoing) - 1),
             dest, i + 1)
    ELSE removeEdgeLoopLegacy(outgoing, dest, i + 1)

removeEdgeLegacy(outgoing, dest) == removeEdgeLoopLegacy(outgoing, dest, 0)

\* Graph.RemoveVertex on the vertex map, for an id that is present
removeVertex(vs, id) == [v \in DOMAIN vs \ {id} |-> removeEdge(vs[v], id)]

removeVertexLegacy(vs, id) == [v \in DOMAIN vs \ {id} |-> removeEdgeLegacy(vs[v], id)]

\* Graph.AddEdge on the vertex map
insertEdgeOneWay(t, vs, from, to, weight) ==
    [vs EXCEPT ![from] = addEdge(@, to, weight)]
insertEdge(t, vs, from, to, weight) ==
    LET a == [vs EXCEPT ![from] = addEdge(@, to, weight)]
    IN  IF t = Bidirectional THEN [a EXCEPT ![to] = addEdge(@, from, weight)] ELSE a

\* Graph.AddEdge of src/graph.go
insertEdgeLegacy(vs, from, to, weight) ==
    [vs EXCEPT ![from] = Append(@, mkEdge(to, weight))]

\* Graph.RemoveEdges on the vertex map
deleteEdges(t, vs, from, to) ==
    LET a == [vs EXCEPT ![from] = removeEdge(@, to)]
    IN  IF t = Bidirectional THEN [a EXCEPT ![to] = removeEdge(@, from)] ELSE a

\* ------------------------------------------------------------------ Path
\* cap(p.edges)
capOf(mem, p) == IF p.arr = 0 THEN 0 ELSE Len(mem[p.arr])

\* the elements p.edges[0:len]
PathEdges(mem, p) == IF p.len = 0 THEN <<>> ELSE SubSeq(mem[p.arr], 1, p.len)

RECURSIVE sumWeights(_, _)
sumWeights(es, k) == IF k > Len(es) THEN 0 ELSE es[k].weight + sumWeights(es, k + 1)

\* Path.Distance, on the elements of p.edges
Distance(es) == IF Len(es) = 0 THEN -1 ELSE sumWeights(es, 1)

\* Path.Destination: <<dest, ok>>
Destination(es) ==
    IF Len(es) = 0 THEN <<NilVertex, FALSE>> ELSE <<es[Len(es)].to, TRUE>>

\* append(p.edges, target): in place when the backing array has room,
\* otherwise a fresh array (capacity 1, then doubling) gets the copy.
append(mem, p, target) ==
    IF p.len < capOf(mem, p)
    THEN [mem |-> [mem EXCEPT ![p.arr][p.len + 1] = target],
          p   |-> [arr |-> p.arr, len |-> p.len + 1]]
    ELSE LET c == IF capOf(mem, p) = 0 THEN 1 ELSE 2 * capOf(mem, p)
             arr == [k \in 1..c |-> IF k <= p.len THEN mem[p.arr][k]
                                    ELSE IF k = p.len + 1 THEN target
                                    ELSE zeroEdge]
         IN  [mem |-> Append(mem, arr), p |-> [arr |-> Len(mem) + 1, len |-> p.len + 1]]

\* Path.addEdge on a copy of the Path value p: the error leaves p as it was
Path_addEdge(mem, p, target) ==
    IF target.weight < 0
    THEN [mem |-> mem, p |-> p, err |-> TRUE]
    ELSE LET r == append(mem, p, target) IN [mem |-> r.mem, p |-> r.p, err |-> FALSE]

\* ---------------------------------------------------------- distanceHeap
\* d is the slice as a sequence; Go index i is d[i + 1]
LessPlain(d, i, j) == d[i + 1].weight < d[j + 1].weight
Less(d, i, j) ==
    LET wi == d[i + 1].weight
        wj == d[j + 1].weight
    IN  IF wi < 0 THEN FALSE
        ELSE IF wj < 0 THEN TRUE
        ELSE wi < wj

Swap(d, i, j) == [d EXCEPT ![i + 1] = d[j + 1], ![j + 1] = d[i + 1]]

\* container/heap down: returns the heap and the final index
RECURSIVE down(_, _, _)
down(d, i, n) ==
    LET j1 == 2 * i + 1
        j2 == j1 + 1
        j  == IF j2 < n /\ Less(d, j2, j1) THEN j2 ELSE j1
    IN  IF j1 >= n THEN [d |-> d, i |-> i]
        ELSE IF ~Less(d, j, i) THEN [d |-> d, i |-> i]
        ELSE down(Swap(d, i, j), j, n)

\* container/heap up
RECURSIVE up(_, _)
up(d, j) ==
    LET i == IF j = 0 THEN 0 ELSE (j - 1) \div 2
    IN  IF i = j \/ ~Less(d, j, i) THEN d ELSE up(Swap(d, i, j), i)

\* heap.Init
RECURSIVE heapInitLoop(_, _)
heapInitLoop(d, i) == IF i < 0 THEN d ELSE heapInitLoop(down(d, i, Len(d)).d, i - 1)

heapInit(d) == heapInitLoop(d, (Len(d) \div 2) - 1)

\* heap.Pop with distanceHeap.Pop: <<rest, popped>>
heapPop(d) ==
    LET n == Len(d) - 1
        s == down(Swap(d, 0, n), 0, n).d
    IN  [d |-> SubSeq(s, 1, n), x |-> s[n + 1]]

\* heap.Fix
heapFix(d, i) ==
    LET r == down(d, i, Len(d))
    IN  IF r.i > i THEN r.d ELSE up(d, i)

\* distanceHeap.update: the first slot holding v, or nothing when v is gone
update(d, v, weight) ==
    LET hits == {i \in 1..Len(d) : d[i].to = v}
    IN  IF hits = {} THEN d
        ELSE LET i == CHOOSE x \in hits : \A y \in hits : x <= y
             IN  heapFix([d EXCEPT ![i].weight = weight], i - 1)

\* ------------------------------------------------------ Dijkstra engine
\* The handler closures of ShortestPath and ShortestPaths. acc is what the
\* closure captures (p, or dists); the result is the new capture and the
\* handler's return value.
handlerShortestPath(mode, acc, v, shortest) ==
    IF v = mode.dest
    THEN [acc |-> shortest, cont |-> FALSE]
    ELSE [acc |-> acc, cont |-> TRUE]

handlerShortestPaths(mode, acc, v, p) ==
    [acc |-> mapPut(acc, v, p), cont |-> TRUE]

handler(mode, acc, v, p) ==
    IF mode.kind = "ShortestPath"
    THEN handlerShortestPath(mode, acc, v, p)
    ELSE handlerShortestPaths(mode, acc, v, p)

\* the heap as built from g.vertices in map iteration order
initialHeap(order, src) ==
    [k \in 1..Len(order) |-> mkEdge(order[k], IF order[k] = src THEN 0 ELSE -1)]

\* one relaxation: the body of the loop over closestEdge.to.edges()
relaxEdge(st, src, closestEdge, e) ==
    IF e.to = src THEN st
    ELSE LET newW == closestEdge.weight + e.weight
             oldW == Distance(PathEdges(st.mem, mapGet(st.sp, e.to, PathZero)))
         IN  IF oldW < 0 \/ newW < oldW
             THEN LET r == Path_addEdge(st.mem, mapGet(st.sp, closestEdge.to, PathZero), e)
                  IN  [st EXCEPT !.mem = r.mem,
                                 !.sp = mapPut(st.sp, e.to, r.p),
                                 !.heap = update(st.heap, e.to, newW)]
             ELSE st

RECURSIVE relaxLoop(_, _, _, _, _)
relaxLoop(st, src, closestEdge, es, k) ==
    IF k > Len(es) THEN st
    ELSE relaxLoop(relaxEdge(st, src, closestEdge, es[k]), src, closestEdge, es, k + 1)

\* closestEdge.weight < 0: the sentinel was popped, nothing else is reachable
sentinelNeverStops(closestEdge) == FALSE
sentinelPopped(closestEdge) == closestEdge.weight < 0

\* closestEdge.to != src: the source itself is not handed to the handler
reportsSourceToo(closestEdge, src) == TRUE
reportsVertex(closestEdge, src) == closestEdge.to # src

\* the main loop of dijkstra, iteration i of entireSize
RECURSIVE dijkstraLoop(_, _, _, _, _, _)
dijkstraLoop(g, src, mode, st, i, entireSize) ==
    IF i >= entireSize THEN st
    ELSE LET pp == heapPop(st.heap)
             closestEdge == pp.x
             s1 == [st EXCEPT !.heap = pp.d]
         IN  IF sentinelPopped(closestEdge) THEN s1
             ELSE IF reportsVertex(closestEdge, src)
             THEN LET h == handler(mode, s1.acc, closestEdge.to,
                                   mapGet(s1.sp, closestEdge.to, PathZero))
                      s2 == [s1 EXCEPT !.acc = h.acc,
                                       !.pops = Append(s1.pops, closestEdge)]
                  IN  IF ~h.cont THEN s2
                      ELSE dijkstraLoop(g, src, mode,
                               relaxLoop(s2, src, closestEdge, g[closestEdge.to], 1),
                               i + 1, entireSize)
             ELSE dijkstraLoop(g, src, mode,
                      relaxLoop(s1, src, closestEdge, g[closestEdge.to], 1),
                      i + 1, entireSize)

\* Graph.dijkstra. g maps each id of g.vertices to its outgoing slice; order
\* is the order in which range g.vertices yields the vertices.
dijkstra(g, src, order, mode, acc0) ==
    LET shortestPaths == [v \in DOMAIN g \ {src} |-> PathZero]
        distHeap == heapInit(initialHeap(order, src))
    IN  dijkstraLoop(g, src, mode,
            [heap |-> distHeap, sp |-> shortestPaths, mem |-> <<>>,
             acc |-> acc0, pops |-> <<>>],
            0, Len(distHeap))

\* Graph.ShortestPath: the Path the caller reads, and the handler calls made
ShortestPath(g, src, dest, order) ==
    LET st == dijkstra(g, src, order, [kind |-> "ShortestPath", dest |-> dest], PathZero)
    IN  [p |-> PathEdges(st.mem, st.acc), pops |-> st.pops]

\* Graph.ShortestPaths: the map the caller reads
ShortestPaths(g, source, order) ==
    LET st == dijkstra(g, source, order, [kind |-> "ShortestPaths"], <<>>)
    IN  [dists |-> [v \in DOMAIN st.acc |-> PathEdges(st.mem, st.acc[v])],
         pops |-> st.pops]

\* ------------------------------------------- src/graph.go ShortestPaths
withoutSource(order, source) == SelectSeq(order, LAMBDA v : v # source)

relaxEdgeLegacy(st, source, closestEdge, e) ==
    IF e.to = source THEN st
    ELSE LET newW == closestEdge.weight + e.weight
             oldW == Distance(PathEdges(st.mem, mapGet(st.sp, e.to, PathZero)))
         IN  IF oldW < 0 \/ newW < oldW
             THEN LET r == Path_addEdge(st.mem, mapGet(st.sp, closestEdge.to, PathZero), e)
                  IN  [st EXCEPT !.mem = r.mem,
                                 !.sp = mapPut(st.sp, e.to, r.p),
                                 !.heap = update(st.heap, e.to, newW)]
             ELSE st

RECURSIVE relaxLoopLegacy(_, _, _, _, _)
relaxLoopLegacy(st, source, closestEdge, es, k) ==
    IF k > Len(es) THEN st
    ELSE relaxLoopLegacy(relaxEdgeLegacy(st, source, closestEdge, es[k]),
                         source, closestEdge, es, k + 1)

RECURSIVE dijkstraLoopLegacy(_, _, _, _, _)
dijkstraLoopLegacy(g, source, st, i, entireSize) ==
    IF i >= entireSize THEN st
    ELSE LET pp == heapPop(st.heap)
             closestEdge == pp.x
             s1 == [st EXCEPT !.heap = pp.d,
                              !.pops = IF closestEdge.weight >= 0 /\ closestEdge.to # source
                                       THEN Append(st.pops, closestEdge) ELSE st.pops]
         IN  IF sentinelPopped(closestEdge) THEN s1
             ELSE dijkstraLoopLegacy(g, source,
                      relaxLoopLegacy(s1, source, closestEdge, g[closestEdge.to], 1),
                      i + 1, entireSize)

\* order is the order in which range dists yields the other vertices
ShortestPathsLegacy(g, source, order) ==
    LET dists == [v \in DOMAIN g \ {source} |-> PathZero]
        distHeap == heapInit(<<mkEdge(source, 0)>> \o
                             initialHeap(withoutSource(order, source), source))
        st == dijkstraLoopLegacy(g, source,
                  [heap |-> distHeap, sp |-> dists, mem |-> <<>>, pops |-> <<>>],
                  0, Len(distHeap))
    IN  [dists |-> [v \in DOMAIN st.sp |-> PathEdges(st.mem, st.sp[v])],
         pops |-> st.pops]

\* ================================================================ state
VARIABLES
    revision,      \* "current" (part_002) or "legacy" (src/graph.go)
    gtype,         \* Graph.Type
    vertices,      \* Graph.vertices: id -> outgoing slice
    vertexIDLast,  \* counter captured by generateID
    vertexIDLock,  \* mutex captured by generateID: 0, or the holder
    pc,            \* where each goroutine stands in NewVertex
    myID,          \* newVertex.id of each goroutine's call
    calls,         \* NewVertex calls started
    issued,        \* identifiers returned by generateID, in order
    removed,       \* <<id, Len(issued)>> for each successful RemoveVertex
    raced,         \* goroutines whose map write overlapped another's
    crashed,       \* the runtime stopped the program (concurrent map writes)
    lastOp,        \* the step just taken and its return value
    qsrc,          \* query input: the source vertex
    qorder,        \* query input: the order range g.vertices yields
    result         \* what the last query returned

vars == <<revision, gtype, vertices, vertexIDLast, vertexIDLock, pc, myID, calls,
          issued, removed, raced, crashed, lastOp, qsrc, qorder, result>>

containerVars == <<revision, gtype, vertices, vertexIDLast, vertexIDLock, pc, myID,
                   calls, issued, removed, raced, crashed, lastOp>>

Threads == 1..NumThreads
IDs == 1..MaxID
Weights == 1..MaxWeight

op(name, a, b, w, ret, k) ==
    [op |-> name, a |-> a, b |-> b, w |-> w, ret |-> ret, k |-> k]

\* number of edge records from -> to (with weight w) in a vertex map
RECURSIVE countIn(_, _, _)
countIn(outgoing, P(_), k) ==
    IF k > Len(outgoing) THEN 0
    ELSE (IF P(outgoing[k]) THEN 1 ELSE 0) + countIn(outgoing, P, k + 1)

edgesTo(vs, from, to) ==
    IF from \in DOMAIN vs THEN countIn(vs[from], LAMBDA e : e.to = to, 1) ELSE 0

edgesToWith(vs, from, to, w) ==
    IF from \in DOMAIN vs
    THEN countIn(vs[from], LAMBDA e : e.to = to /\ e.weight = w, 1) ELSE 0

RECURSIVE totalEdges(_, _)
totalEdges(vs, S) ==
    IF S = {} THEN 0
    ELSE LET v == CHOOSE x \in S : TRUE IN Len(vs[v]) + totalEdges(vs, S \ {v})

\* New(t): an empty graph, the counter at 0, the lock free
Init ==
    /\ revision \in {"current", "legacy"}
    /\ gtype \in (IF revision = "current" THEN {Directional, Bidirectional}
                  ELSE {Directional})
    /\ vertices = <<>>
    /\ vertexIDLast = 0
    /\ vertexIDLock = 0
    /\ pc = [t \in Threads |-> "idle"]
    /\ myID = [t \in Threads |-> 0]
    /\ calls = 0
    /\ issued = <<>>
    /\ removed = {}
    /\ raced = {}
    /\ crashed = FALSE
    /\ lastOp = op("New", 0, 0, 0, TRUE, 0)
    /\ qsrc = 0
    /\ qorder = <<>>
    /\ result = [kind |-> "none"]

\* ------------------------------------------------------------ NewVertex
\* a goroutine enters NewVertex and reaches generateID
NewVertexCall(t) ==
    /\ ~crashed
    /\ pc[t] = "idle"
    /\ calls < MaxID
    /\ calls' = calls + 1
    /\ pc' = [pc EXCEPT ![t] = "lock"]
    /\ lastOp' = op("NewVertex", 0, 0, 0, TRUE, 0)
    /\ UNCHANGED <<revision, gtype, vertices, vertexIDLast, vertexIDLock, myID,
                   issued, removed, raced, crashed, qsrc, qorder, result>>

\* vertexIDLock.Lock() may proceed
LockFreeIgnored(t) == TRUE
LockFree(t) == vertexIDLock = 0

generateIDLock(t) ==
    /\ ~crashed
    /\ pc[t] = "lock"
    /\ LockFree(t)
    /\ vertexIDLock' = t
    /\ pc' = [pc EXCEPT ![t] = "inc"]
    /\ lastOp' = op("NewVertex", 0, 0, 0, TRUE, 0)
    /\ UNCHANGED <<revision, gtype, vertices, vertexIDLast, myID, calls,
                   issued, removed, raced, crashed, qsrc, qorder, result>>

\* vertexIDLast++
generateIDIncrement(t) ==
    /\ ~crashed
    /\ pc[t] = "inc"
    /\ vertexIDLast' = vertexIDLast + 1
    /\ pc' = [pc EXCEPT ![t] = "ret"]
    /\ lastOp' = op("NewVertex", 0, 0, 0, TRUE, 0)
    /\ UNCHANGED <<revision, gtype, vertices, vertexIDLock, myID, calls,
                   issued, removed, raced, crashed, qsrc, qorder, result>>

\* return vertexIDLast, then the deferred Unlock
generateIDReturn(t) ==
    /\ ~crashed
    /\ pc[t] = "ret"
    /\ myID' = [myID EXCEPT ![t] = vertexIDLast]
    /\ issued' = Append(issued, vertexIDLast)
    /\ vertexIDLock' = 0
    /\ pc' = [pc EXCEPT ![t] = "assign"]
    /\ lastOp' = op("NewVertex", 0, 0, 0, TRUE, 0)
    /\ UNCHANGED <<revision, gtype, vertices, vertexIDLast, calls,
                   removed, raced, crashed, qsrc, qorder, result>>

mapWriters == {t \in Threads : pc[t] = "assigning"}

\* g.vertices[id] = newVertex begins. The map is not locked: a write that
\* starts while another is under way is a data race, which the runtime may
\* catch (fatal error: concurrent map writes) or miss.
mapassignBegin(t) ==
    /\ ~crashed
    /\ pc[t] = "assign"
    /\ lastOp' = op("NewVertex", 0, 0, 0, TRUE, 0)
    /\ \/ /\ mapWriters = {}
          /\ pc' = [pc EXCEPT ![t] = "assigning"]
          /\ UNCHANGED <<raced, crashed>>
       \/ /\ mapWriters # {}
          /\ pc' = [pc EXCEPT ![t] = "assigning"]
          /\ raced' = raced \cup mapWriters \cup {t}
          /\ UNCHANGED crashed
       \/ /\ mapWriters # {}
          /\ crashed' = TRUE
          /\ UNCHANGED <<pc, raced>>
    /\ UNCHANGED <<revision, gtype, vertices, vertexIDLast, vertexIDLock, myID,
                   calls, issued, removed, qsrc, qorder, result>>

\* the write ends and NewVertex returns the handle. After a race the
\* record may be stored, or lost, or the runtime may stop the program.
mapassignEnd(t) ==
    /\ ~crashed
    /\ pc[t] = "assigning"
    /\ lastOp' = op("NewVertex", 0, 0, 0, TRUE, 0)
    /\ \/ /\ vertices' = mapPut(vertices, myID[t], <<>>)
          /\ pc' = [pc EXCEPT ![t] = "idle"]
          /\ raced' = raced \ {t}
          /\ UNCHANGED crashed
       \/ /\ t \in raced
          /\ pc' = [pc EXCEPT ![t] = "idle"]
          /\ raced' = raced \ {t}
          /\ UNCHANGED <<vertices, crashed>>
       \/ /\ t \in raced
          /\ crashed' = TRUE
          /\ UNCHANGED <<vertices, pc, raced>>
    /\ UNCHANGED <<revision, gtype, vertexIDLast, vertexIDLock, myID,
                   calls, issued, removed, qsrc, qorder, result>>

\* --------------------------------------- RemoveVertex, AddEdge, RemoveEdges
\* The caller serialises these with the map writes of NewVertex.
quiescent == ~crashed /\ mapWriters = {}

RemoveVertex(id) ==
    /\ quiescent
    /\ revision = "current"
    /\ IF id \notin DOMAIN vertices
       THEN /\ lastOp' = op("RemoveVertex", id, 0, 0, FALSE, 0)
            /\ UNCHANGED <<vertices, removed>>
       ELSE /\ vertices' = removeVertex(vertices, id)
            /\ removed' = removed \cup {<<id, Len(issued)>>}
            /\ lastOp' = op("RemoveVertex", id, 0, 0, TRUE, 0)
    /\ UNCHANGED <<revision, gtype, vertexIDLast, vertexIDLock, pc, myID, calls,
                   issued, raced, crashed, qsrc, qorder, result>>

RemoveVertexLegacy(id) ==
    /\ quiescent
    /\ revision = "legacy"
    /\ IF id \notin DOMAIN vertices
       THEN /\ lastOp' = op("RemoveVertex", id, 0, 0, FALSE, 0)
            /\ UNCHANGED <<vertices, removed>>
       ELSE /\ vertices' = removeVertexLegacy(vertices, id)
            /\ removed' = removed \cup {<<id, Len(issued)>>}
            /\ lastOp' = op("RemoveVertex", id, 0, 0, TRUE, 0)
    /\ UNCHANGED <<revision, gtype, vertexIDLast, vertexIDLock, pc, myID, calls,
                   issued, raced, crashed, qsrc, qorder, result>>

\* room for one more AddEdge within the bound
edgeRoom ==
    totalEdges(vertices, DOMAIN vertices)
        < (IF gtype = Bidirectional THEN 2 * MaxEdges ELSE MaxEdges)

\* lastOp.k of an AddEdge: 1 when it directly follows RemoveEdges(from, to)
followsRemoveEdges(from, to) ==
    IF lastOp.op = "RemoveEdges" /\ lastOp.a = from /\ lastOp.b = to THEN 1 ELSE 0

AddEdge(from, to, weight) ==
    /\ quiescent
    /\ revision = "current"
    /\ from \in DOMAIN vertices /\ to \in DOMAIN vertices
    /\ edgeRoom
    /\ vertices' = insertEdge(gtype, vertices, from, to, weight)
    /\ lastOp' = op("AddEdge", from, to, weight, TRUE, followsRemoveEdges(from, to))
    /\ UNCHANGED <<revision, gtype, vertexIDLast, vertexIDLock, pc, myID, calls,
                   issued, removed, raced, crashed, qsrc, qorder, result>>

AddEdgeLegacy(from, to, weight) ==
    /\ quiescent
    /\ revision = "legacy"
    /\ from \in DOMAIN vertices /\ to \in DOMAIN vertices
    /\ edgeRoom
    /\ vertices' = insertEdgeLegacy(vertices, from, to, weight)
    /\ lastOp' = op("AddEdge", from, to, weight, TRUE, 0)
    /\ UNCHANGED <<revision, gtype, vertexIDLast, vertexIDLock, pc, myID, calls,
                   issued, removed, raced, crashed, qsrc, qorder, result>>

RemoveEdges(from, to) ==
    /\ quiescent
    /\ revision = "current"
    /\ from \in DOMAIN vertices /\ to \in DOMAIN vertices
    /\ vertices' = deleteEdges(gtype, vertices, from, to)
    /\ lastOp' = op("RemoveEdges", from, to, 0, TRUE, edgesTo(vertices, from, to))
    /\ UNCHANGED <<revision, gtype, vertexIDLast, vertexIDLock, pc, myID, calls,
                   issued, removed, raced, crashed, qsrc, qorder, result>>

Next ==
    \/ \E t \in Threads : NewVertexCall(t)
    \/ \E t \in Threads : generateIDLock(t)
    \/ \E t \in Threads : generateIDIncrement(t)
    \/ \E t \in Threads : generateIDReturn(t)
    \/ \E t \in Threads : mapassignBegin(t)
    \/ \E t \in Threads : mapassignEnd(t)
    \/ \E id \in IDs : RemoveVertex(id)
    \/ \E id \in IDs : RemoveVertexLegacy(id)
    \/ \E from \in IDs, to \in IDs, w \in Weights : AddEdge(from, to, w)
    \/ \E from \in IDs, to \in IDs, w \in Weights : AddEdgeLegacy(from, to, w)
    \/ \E from \in IDs, to \in IDs : RemoveEdges(from, to)

Spec == Init /\ [][Next]_vars

\* ============================================================== queries
\* A query is a pure function of the graph, the source and the order in
\* which range g.vertices yields the vertices (unspecified in Go: every
\* permutation). The query specifications draw these in their initial
\* states and apply ShortestPath / ShortestPaths once.

Perms(S) ==
    {f \in [1..Cardinality(S) -> S] : \A i, j \in 1..Cardinality(S) : f[i] = f[j] => i = j}

SeqsUpTo(S, n) == UNION {[1..k -> S] : k \in 0..n}

\* n NewVertex calls, then the AddEdge calls of es, on a new graph
RECURSIVE build(_, _, _, _, _)
build(rev, t, vs, es, k) ==
    IF k > Len(es) THEN vs
    ELSE build(rev, t,
               IF rev = "current"
               THEN insertEdge(t, vs, es[k][1], es[k][2], es[k][3])
               ELSE insertEdgeLegacy(vs, es[k][1], es[k][2], es[k][3]),
               es, k + 1)

built(rev, t, n, es) == build(rev, t, [v \in 1..n |-> <<>>], es, 1)

\* the container after n sequential NewVertex calls and some AddEdge calls
afterBuild(n) ==
    /\ vertexIDLast = n
    /\ vertexIDLock = 0
    /\ pc = [t \in Threads |-> "idle"]
    /\ myID = [t \in Threads |-> 0]
    /\ calls = n
    /\ issued = [k \in 1..n |-> k]
    /\ removed = {}
    /\ raced = {}
    /\ crashed = FALSE
    /\ lastOp = op("AddEdge", 0, 0, 0, TRUE, 0)
    /\ result = [kind |-> "none"]

QueryWeights == (-1)..MaxQueryWeight

InitQuery ==
    /\ revision \in {"current", "legacy"}
    /\ gtype \in (IF revision = "current" THEN {Directional, Bidirectional}
                  ELSE {Directional})
    /\ \E n \in 1..MaxQueryVertices :
          /\ afterBuild(n)
          /\ \E es \in SeqsUpTo((1..n) \X (1..n) \X QueryWeights, MaxQueryEdges) :
                vertices = built(revision, gtype, n, es)
          /\ qsrc \in 1..n
          /\ qorder \in Perms(1..n)

\* the chain 1 -> 2 -> ... -> ChainLen+1 (weights 1) whose last vertex has
\* an edge to each of FanOut further vertices
chainVertices == ChainLen + 1 + FanOut

chainEdges(ws) ==
    [k \in 1..(ChainLen + FanOut) |->
        IF k <= ChainLen THEN <<k, k + 1, 1>>
        ELSE <<ChainLen + 1, k + 1, ws[k - ChainLen]>>]

InitChain ==
    /\ revision \in {"current", "legacy"}
    /\ gtype = Directional
    /\ afterBuild(chainVertices)
    /\ \E ws \in [1..FanOut -> 1..MaxChainWeight] :
          vertices = built(revision, gtype, chainVertices, chainEdges(ws))
    /\ qsrc \in 1..chainVertices
    /\ qorder \in Perms(1..chainVertices)

\* the graph of TestShortestPaths: vertices[i] has id i + 1
scenarioVertices == 6
scenarioEdges ==
    << <<1, 3, 1>>, <<3, 5, 2>>, <<3, 6, 3>>, <<4, 6, 4>>, <<5, 6, 5>>, <<6, 2, 6>> >>

InitScenario ==
    /\ revision \in {"current", "legacy"}
    /\ gtype = Directional
    /\ afterBuild(scenarioVertices)
    /\ vertices = built(revision, gtype, scenarioVertices, scenarioEdges)
    /\ qsrc = 1
    /\ qorder \in Perms(1..scenarioVertices)

CallShortestPath(dest) ==
    /\ result.kind = "none"
    /\ revision = "current"
    /\ result' = [kind |-> "ShortestPath", dest |-> dest,
                  r |-> ShortestPath(vertices, qsrc, dest, qorder)]
    /\ UNCHANGED <<containerVars, qsrc, qorder>>

CallShortestPaths ==
    /\ result.kind = "none"
    /\ revision = "current"
    /\ result' = [kind |-> "ShortestPaths", dest |-> 0,
                  r |-> ShortestPaths(vertices, qsrc, qorder)]
    /\ UNCHANGED <<containerVars, qsrc, qorder>>

CallShortestPathsLegacy ==
    /\ result.kind = "none"
    /\ revision = "legacy"
    /\ result' = [kind |-> "ShortestPaths", dest |-> 0,
                  r |-> ShortestPathsLegacy(vertices, qsrc, qorder)]
    /\ UNCHANGED <<containerVars, qsrc, qorder>>

NextQuery ==
    \/ \E dest \in DOMAIN vertices : CallShortestPath(dest)
    \/ CallShortestPaths
    \/ CallShortestPathsLegacy

SpecQuery == InitQuery /\ [][NextQuery]_vars
SpecChain == InitChain /\ [][NextQuery]_vars
SpecScenario == InitScenario /\ [][NextQuery]_vars

\* ====================================================== reference notions
nonNegative(g) == \A u \in DOMAIN g : \A i \in 1..Len(g[u]) : g[u][i].weight >= 0

minOf(S) == CHOOSE x \in S : \A y \in S : x <= y

\* the vertices some walk from src reaches
RECURSIVE reachFrom(_, _)
reachFrom(g, R) ==
    LET R2 == R \cup {v \in DOMAIN g : \E u \in R : \E i \in 1..Len(g[u]) : g[u][i].to = v}
    IN  IF R2 = R THEN R ELSE reachFrom(g, R2)

Reach(g, src) == reachFrom(g, {src})

rangeOf(seq) == {seq[i] : i \in 1..Len(seq)}

\* D holds <<v, least weight sum over the walks from the source to v seen so
\* far>>; one round extends every walk by one edge (weights >= 0)
RECURSIVE walkDists(_, _, _)
walkDists(g, D, k) ==
    IF k = 0 THEN D
    ELSE LET cands == D \cup UNION {{<<e.to, p[2] + e.weight>> : e \in rangeOf(g[p[1]])} :
                                    p \in {x \in D : x[1] \in DOMAIN g}}
             best == {<<v, minOf({c[2] : c \in {x \in cands : x[1] = v}})>> :
                      v \in {c[1] : c \in cands}}
         IN  walkDists(g, best, k - 1)

\* the minimum over all walks from src to v of the walk's weight sum, for a
\* v some walk reaches
minDist(g, src, v) ==
    LET D == walkDists(g, {<<src, 0>>}, Cardinality(DOMAIN g))
    IN  (CHOOSE p \in D : p[1] = v)[2]

\* es is a contiguous walk of g's edges that starts at src
isWalkFrom(g, src, es) ==
    /\ Len(es) >= 1
    /\ \A k \in 1..Len(es) :
          LET from == IF k = 1 THEN src ELSE es[k - 1].to
          IN  /\ from \in DOMAIN g
              /\ \E i \in 1..Len(g[from]) : g[from][i] = es[k]

queried == result.kind # "none"
isShortestPaths == result.kind = "ShortestPaths"
isShortestPath == result.kind = "ShortestPath"

\* the Path a query reports for v, <<>> when it reports none
reportedPath(v) ==
    IF isShortestPaths THEN mapGet(result.r.dists, v, <<>>)
    ELSE IF isShortestPath /\ result.dest = v THEN result.r.p
    ELSE <<>>

\* the vertices a query can be asked about
askedAbout == IF isShortestPaths THEN DOMAIN vertices
              ELSE IF isShortestPath THEN {result.dest} ELSE {}

\* the vertices the engine resolved (handed to the handler)
resolvedSet == IF queried THEN {result.r.pops[k].to : k \in 1..Len(result.r.pops)} ELSE {}

poppedPriority(v) ==
    LET k == CHOOSE x \in 1..Len(result.r.pops) : result.r.pops[x].to = v
    IN  result.r.pops[k].weight

\* ================================================================ claims

\* C1: with non-negative weights, every vertex other than the source that a
\* walk from the source reaches is reported, by ShortestPaths(source) and by
\* ShortestPath(source, v), with the least weight sum over all walks to it.
C1_DijkstraOptimality ==
    (queried /\ nonNegative(vertices)) =>
        \A v \in (Reach(vertices, qsrc) \ {qsrc}) \cap askedAbout :
            Distance(reportedPath(v)) = minDist(vertices, qsrc, v)

\* C2: with non-negative weights, every vertex a query reports as resolved
\* has a Path that is a contiguous walk from the source, ends at that vertex,
\* and whose Distance is the priority the vertex was popped with.
C2_PathConsistency ==
    (queried /\ nonNegative(vertices)) =>
        \A v \in resolvedSet \cap askedAbout :
            /\ isWalkFrom(vertices, qsrc, reportedPath(v))
            /\ Destination(reportedPath(v)) = <<v, TRUE>>
            /\ Distance(reportedPath(v)) = poppedPriority(v)

\* C3: a vertex no walk from the source reaches is never reported with a
\* distance >= 0: ShortestPath returns a Path with no edges (Distance -1,
\* Destination not found), ShortestPaths has no entry or an empty Path.
C3_UnreachableIsData ==
    queried =>
        \A v \in (DOMAIN vertices \ Reach(vertices, qsrc)) \cap askedAbout :
            /\ reportedPath(v) = <<>>
            /\ Distance(reportedPath(v)) = -1
            /\ Destination(reportedPath(v))[2] = FALSE
            /\ v \notin resolvedSet

C3_Witness ==
    /\ isShortestPaths
    /\ Len(result.r.pops) >= 1
    /\ \E v \in DOMAIN vertices \ Reach(vertices, qsrc) :
          \E i \in 1..Len(vertices[v]) : vertices[v][i].to \in Reach(vertices, qsrc) \ {qsrc}

\* C4 as stated: the source is reported with distance 0 and an empty Path,
\* by ShortestPath(source, source) and in ShortestPaths(source).
C4_SourceDistanceZero ==
    (queried /\ qsrc \in askedAbout) =>
        /\ reportedPath(qsrc) = <<>>
        /\ Distance(reportedPath(qsrc)) = 0
        /\ isShortestPaths => qsrc \in DOMAIN result.r.dists

\* C4, amended: the source is never reported. ShortestPath(source, source)
\* returns the empty Path, whose Distance is the sentinel -1, and
\* ShortestPaths(source) has no entry for the source.
C4_SourceNotReported ==
    (queried /\ qsrc \in askedAbout) =>
        /\ reportedPath(qsrc) = <<>>
        /\ Distance(reportedPath(qsrc)) = -1
        /\ isShortestPaths => qsrc \notin DOMAIN result.r.dists
        /\ qsrc \notin resolvedSet

C4_Witness ==
    /\ isShortestPath
    /\ result.dest = qsrc
    /\ \E u \in Reach(vertices, qsrc) \ {qsrc} :
          \E i \in 1..Len(vertices[u]) : vertices[u][i].to = qsrc

\* what a RemoveVertex step must do, by C5
RemoveVertexStepOK ==
    LET o == lastOp'
    IN  o.op = "RemoveVertex" =>
            IF o.a \in DOMAIN vertices
            THEN /\ o.ret
                 /\ o.a \notin DOMAIN vertices'
                 /\ \A v \in DOMAIN vertices' : edgesTo(vertices', v, o.a) = 0
            ELSE /\ ~o.ret
                 /\ vertices' = vertices

\* C5: RemoveVertex(X) of a present X returns true, and then the map has no
\* record for X and no remaining outgoing list holds an edge to X;
\* RemoveVertex of an absent id (a second RemoveVertex(X) too) returns false
\* and leaves the graph as it was.
C5_RemoveVertexCascade == [][RemoveVertexStepOK]_vars

\* every edge has its mirror image
mirrored(vs) ==
    \A a \in DOMAIN vs, b \in DOMAIN vs, w \in Weights :
        edgesToWith(vs, a, b, w) = edgesToWith(vs, b, a, w)

\* AddEdge and RemoveEdges in a Directional graph touch lastOp.a only
oneWayStep ==
    LET o == lastOp'
    IN  (gtype = Directional /\ o.op \in {"AddEdge", "RemoveEdges"}) =>
            /\ DOMAIN vertices' = DOMAIN vertices
            /\ \A v \in DOMAIN vertices \ {o.a} : vertices'[v] = vertices[v]
            /\ o.op = "AddEdge" => vertices'[o.a] = Append(vertices[o.a], mkEdge(o.b, o.w))
            /\ o.op = "RemoveEdges" => edgesTo(vertices', o.a, o.b) = 0

\* C6: in a Bidirectional graph the edges A -> B of weight w are always as
\* many as the edges B -> A of weight w, for all live A, B; in a Directional
\* graph AddEdge(A, B, w) and RemoveEdges(A, B) change A's outgoing list only
\* (AddEdge appends the one edge, RemoveEdges leaves no edge A -> B).
C6_SymmetricMirroring ==
    [][(gtype = Bidirectional => mirrored(vertices')) /\ oneWayStep]_vars

C6_Witness ==
    /\ gtype = Bidirectional
    /\ lastOp.op = "RemoveEdges"
    /\ lastOp.a # lastOp.b
    /\ lastOp.k >= 2
    /\ \E v \in DOMAIN vertices : Len(vertices[v]) >= 1

\* C7: generateID hands out strictly increasing identifiers: no two calls
\* get the same one, and none is handed out again after its vertex was
\* removed.
C7_IdentifierUniqueness ==
    /\ \A i, j \in 1..Len(issued) : i < j => issued[i] < issued[j]
    /\ \A r \in removed : \A k \in 1..Len(issued) : k > r[2] => issued[k] # r[1]
    /\ \A t, u \in Threads :
          (t # u /\ pc[t] \in {"assign", "assigning"} /\ pc[u] \in {"assign", "assigning"})
              => myID[t] # myID[u]

C7_Witness ==
    /\ removed # {}
    /\ \A t \in Threads : pc[t] = "assign"

\* C11: concurrent NewVertex calls are safe: no call is stopped by the
\* runtime (every call completes and returns a handle), and once every call
\* has returned, each identifier handed out has its record in g.vertices,
\* unless RemoveVertex took it out since.
C11_ConcurrentCreationSafe ==
    /\ ~crashed
    /\ (\A t \in Threads : pc[t] = "idle") =>
          \A k \in 1..Len(issued) :
              \/ issued[k] \in DOMAIN vertices
              \/ \E r \in removed : r[1] = issued[k]

\* what RemoveEdges(from, to) leaves: no edge from -> to, the edges from
\* `from` to every other target as they were
RemoveEdgesStepOK ==
    LET o == lastOp'
    IN  o.op = "RemoveEdges" =>
            /\ edgesTo(vertices', o.a, o.b) = 0
            /\ \A c \in IDs \ {o.b} : \A w \in Weights :
                  edgesToWith(vertices', o.a, c, w) = edgesToWith(vertices, o.a, c, w)

\* C8 as stated: RemoveEdges(from, to) leaves no edge from -> to and the
\* other edges of `from` as they were; an AddEdge(from, to, w) after it adds
\* exactly one edge from -> to of weight w.
C8_MultigraphRemoval ==
    [][/\ RemoveEdgesStepOK
       /\ LET o == lastOp'
          IN  (o.op = "AddEdge" /\ o.k = 1) =>
                  edgesToWith(vertices', o.a, o.b, o.w)
                      = edgesToWith(vertices, o.a, o.b, o.w) + 1]_vars

\* C8, amended: as stated, except that in a Bidirectional graph
\* AddEdge(from, from, w) adds two edges from -> from of weight w.
C8_MultigraphRemovalAmended ==
    [][/\ RemoveEdgesStepOK
       /\ LET o == lastOp'
          IN  o.op = "AddEdge" =>
                  edgesToWith(vertices', o.a, o.b, o.w)
                      = edgesToWith(vertices, o.a, o.b, o.w)
                          + (IF gtype = Bidirectional /\ o.a = o.b THEN 2 ELSE 1)]_vars

C8_Witness ==
    /\ lastOp.op = "RemoveEdges"
    /\ lastOp.k >= 2
    /\ Len(vertices[lastOp.a]) >= 1

\* C9: a relaxation over a negative-weight edge is skipped, so every
\* reported Path is free of negative-weight edges and ends at the vertex it
\* is reported for.
C9_NegativeEdgeSkipped ==
    queried =>
        \A v \in askedAbout :
            LET es == reportedPath(v)
            IN  /\ \A k \in 1..Len(es) : es[k].weight >= 0
                /\ es # <<>> => es[Len(es)].to = v

\* C10 as stated: vertices[2], [4], [5], [1] at distances 3, 5, 6, 12 and
\* vertices[3] unreachable.
C10_ScenarioAsStated ==
    isShortestPaths =>
        /\ Distance(reportedPath(3)) = 3
        /\ Distance(reportedPath(5)) = 5
        /\ Distance(reportedPath(6)) = 6
        /\ Distance(reportedPath(2)) = 12
        /\ Distance(reportedPath(4)) = -1

\* C10, amended: ShortestPaths(vertices[0]) reports vertices[2], [4], [5],
\* [1] at distances 1, 3, 4, 10 and vertices[3] unreachable.
C10_Scenario ==
    isShortestPaths =>
        /\ Distance(reportedPath(3)) = 1
        /\ Distance(reportedPath(5)) = 3
        /\ Distance(reportedPath(6)) = 4
        /\ Distance(reportedPath(2)) = 10
        /\ Distance(reportedPath(4)) = -1

C10_Witness ==
    /\ isShortestPaths
    /\ Len(result.r.pops) = 4
    /\ reportedPath(2) = <<mkEdge(3, 1), mkEdge(6, 3), mkEdge(2, 6)>>

====
